---- MODULE Spec2Model ----
(***************************************************************************)
(* Model of surf.protocols.clink.ClinkTop (python/surf/protocols/clink/    *)
(* _ClinkTop.py): the register map built by ClinkTop.__init__ and the      *)
(* three reset methods, over a memory of 32-bit register words.            *)
(***************************************************************************)
EXTENDS Integers, Sequences, FiniteSets, TLC

\* ---------------------------------------------------------------- bounds
\* longest serial / camType list tried as construction input
MaxLen == 3

\* ------------------------------------------------------- program constants
\* width of a register word (a 32-bit field fills one word, stride 4 bytes)
WordBits == 32

\* channel slots looped over by __init__: for i in range(2)
NumChannels == 2

\* clock managers added by __init__: for i in range(3)
NumPlls == 3

None == "None"
NoIdx == -1

\* values a slot of the serial list may hold (None = absent)
SerialVals == {None, "serA"}
\* values a slot of the camType list may hold
CamTypeVals == {None, "Opal1000"}

RECURSIVE SeqsUpTo(_, _)
SeqsUpTo(S, n) ==
    IF n = 0 THEN {<<>>}
    ELSE LET shorter == SeqsUpTo(S, n - 1)
         IN  shorter \cup {Append(s, v) : s \in {t \in shorter : Len(t) = n - 1}, v \in S}

\* ------------------------------------------------------------ descriptors
\* One node of the device tree: a variable, a command or a sub-device.
Node(kind, name, idx, offset, bitSize, bitOffset, mode, pollInterval, function, serialArg, camTypeArg, typeArg) ==
    [kind |-> kind, name |-> name, idx |-> idx, offset |-> offset,
     bitSize |-> bitSize, bitOffset |-> bitOffset, mode |-> mode,
     pollInterval |-> pollInterval, function |-> function,
     serial |-> serialArg, camType |-> camTypeArg, type |-> typeArg]

RemoteVariable(name, offset, bitSize, bitOffset, mode, pollInterval) ==
    Node("RemoteVariable", name, NoIdx, offset, bitSize, bitOffset, mode, pollInterval, None, None, None, None)

RemoteCommand(name, offset, bitSize, bitOffset, function) ==
    Node("RemoteCommand", name, NoIdx, offset, bitSize, bitOffset, None, 0, function, None, None, None)

\* pr.Device.addRemoteVariables: the template replicated `number` times,
\* instance k named name[k] at offset + k*stride.
addRemoteVariables(name, offset, bitSize, bitOffset, mode, pollInterval, number, stride) ==
    [k \in 1..number |->
        Node("RemoteVariable", name, k - 1, offset + (k - 1) * stride, bitSize, bitOffset, mode, pollInterval, None, None, None, None)]

ChanCount == RemoteVariable("ChanCount", 0, 4, 0, "RO", 0)

ResetPll == RemoteCommand("ResetPll", 4, 1, 0, "toggle")

\* ResetFsm declared on ResetPll's bit (bitOffset copied from the entry above)
ResetFsmSameBit == RemoteCommand("ResetFsm", 4, 1, 0, "toggle")

ResetFsm == RemoteCommand("ResetFsm", 4, 1, 1, "toggle")

CntRst == RemoteCommand("CntRst", 4, 1, 2, "toggle")

LinkLockedA == RemoteVariable("LinkLockedA", 16, 1, 0, "RO", 1)

LinkLockedB == RemoteVariable("LinkLockedB", 16, 1, 1, "RO", 1)

LinkLockedC == RemoteVariable("LinkLockedC", 16, 1, 2, "RO", 1)

\* LinkLockedCntA starting at bit 2, inside LinkLockedC
LinkLockedCntAOverlap == RemoteVariable("LinkLockedCntA", 16, 8, 2, "RO", 1)

LinkLockedCntA == RemoteVariable("LinkLockedCntA", 16, 8, 8, "RO", 1)

LinkLockedCntB == RemoteVariable("LinkLockedCntB", 16, 8, 16, "RO", 1)

\* LinkLockedCntC declared 16 bits wide at bit 24
LinkLockedCntCWide == RemoteVariable("LinkLockedCntC", 16, 16, 24, "RO", 1)

LinkLockedCntC == RemoteVariable("LinkLockedCntC", 16, 8, 24, "RO", 1)

ShiftCountA == RemoteVariable("ShiftCountA", 20, 3, 0, "RO", 1)

ShiftCountB == RemoteVariable("ShiftCountB", 20, 3, 8, "RO", 1)

ShiftCountC == RemoteVariable("ShiftCountC", 20, 3, 16, "RO", 1)

DelayA == RemoteVariable("DelayA", 24, 5, 0, "RO", 1)

DelayB == RemoteVariable("DelayB", 24, 5, 8, "RO", 1)

DelayC == RemoteVariable("DelayC", 24, 5, 16, "RO", 1)

ClkInFreq == addRemoteVariables("ClkInFreq", 28, 32, 0, "RO", 1, 3, 4)

\* ClinkClkFreq with a stride of 8 bytes
ClinkClkFreqStride8 == addRemoteVariables("ClinkClkFreq", 40, 32, 0, "RO", 1, 3, 8)

ClinkClkFreq == addRemoteVariables("ClinkClkFreq", 40, 32, 0, "RO", 1, 3, 4)

ClinkClk7xFreq == addRemoteVariables("ClinkClk7xFreq", 52, 32, 0, "RO", 1, 3, 4)

\* the variables and commands added by lines 37-239, in the order added
Variables ==
    << ChanCount, ResetPll, ResetFsm, CntRst,
       LinkLockedA, LinkLockedB, LinkLockedC,
       LinkLockedCntA, LinkLockedCntB, LinkLockedCntC,
       ShiftCountA, ShiftCountB, ShiftCountC,
       DelayA, DelayB, DelayC >>
    \o ClkInFreq \o ClinkClkFreq \o ClinkClk7xFreq

\* cl.ClinkChannel(name=f'Ch[{i}]', offset=0x100+(i*0x100), serial=serial[i], camType=camType[i])
ClinkChannel(i, ser, cam) ==
    Node("ClinkChannel", "Ch", i, 256 + (i * 256), 0, 0, None, 0, None, ser, cam, None)

\* the clock managers spaced like the channels, 0x100 apart
ClockManagerStride100(i) ==
    Node("ClockManager", "Pll", i, 4096 + (i * 256), 0, 0, None, 0, None, None, None, "MMCME2")

\* xil.ClockManager(name=f'Pll[{i}]', offset=0x1000+(i*0x1000), type='MMCME2', expand=False)
ClockManager(i) ==
    Node("ClockManager", "Pll", i, 4096 + (i * 4096), 0, 0, None, 0, None, None, None, "MMCME2")

\* A python subscript s[i] (0-based, i >= 0) raises IndexError when i >= len(s).
IndexError(s, i) == i >= Len(s)

Item(s, i) == s[i + 1]

\* the channel loop testing camType[i] instead of serial[i]
RECURSIVE ChannelLoopOnCamType(_, _, _)
ChannelLoopOnCamType(ser, cam, i) ==
    IF i >= NumChannels THEN [err |-> FALSE, nodes |-> <<>>]
    ELSE IF IndexError(cam, i) \/ IndexError(ser, i) THEN [err |-> TRUE, nodes |-> <<>>]
    ELSE IF Item(cam, i) /= None
         THEN LET rest == ChannelLoopOnCamType(ser, cam, i + 1)
              IN  [err |-> rest.err,
                   nodes |-> <<ClinkChannel(i, Item(ser, i), Item(cam, i))>> \o rest.nodes]
         ELSE ChannelLoopOnCamType(ser, cam, i + 1)

\* the channel loop reading camType[i] before it tests serial[i]
RECURSIVE ChannelLoopEager(_, _, _)
ChannelLoopEager(ser, cam, i) ==
    IF i >= NumChannels THEN [err |-> FALSE, nodes |-> <<>>]
    ELSE IF IndexError(ser, i) \/ IndexError(cam, i) THEN [err |-> TRUE, nodes |-> <<>>]
    ELSE LET rest == ChannelLoopEager(ser, cam, i + 1)
         IN  IF Item(ser, i) /= None
             THEN [err |-> rest.err,
                   nodes |-> <<ClinkChannel(i, Item(ser, i), Item(cam, i))>> \o rest.nodes]
             ELSE rest

\* The loop `for i in range(2)` of __init__ from slot i on: the channel nodes it
\* adds, or err as soon as a subscript raises.
RECURSIVE ChannelLoop(_, _, _)
ChannelLoop(ser, cam, i) ==
    IF i >= NumChannels THEN [err |-> FALSE, nodes |-> <<>>]
    ELSE IF IndexError(ser, i) THEN [err |-> TRUE, nodes |-> <<>>]
    ELSE IF Item(ser, i) /= None
         THEN IF IndexError(cam, i) THEN [err |-> TRUE, nodes |-> <<>>]
              ELSE LET rest == ChannelLoop(ser, cam, i + 1)
                   IN  [err |-> rest.err,
                        nodes |-> <<ClinkChannel(i, Item(ser, i), Item(cam, i))>> \o rest.nodes]
         ELSE ChannelLoop(ser, cam, i + 1)

\* The loop `for i in range(3)` of __init__
PllLoop == [k \in 1..NumPlls |-> ClockManager(k - 1)]

\* ------------------------------------------------------------------ state
VARIABLES
    serial,     \* the serial argument of __init__
    camType,    \* the camType argument of __init__
    pc,         \* "new" before __init__ ran, then "built" or "failed"
    tree,       \* the nodes of the device, in the order added
    mem,        \* register words by byte offset, each a function bit -> 0/1
    cur,        \* the method last called: its name, the command it runs, its phase
    log,        \* the writes made by the method last called, in order
    lastRead    \* the variable last read and the bits it returned

vars == <<serial, camType, pc, tree, mem, cur, log, lastRead>>

Bits == 0..(WordBits - 1)

\* byte offsets of the register words the variables and commands live in
Offsets == {n.offset : n \in {Variables[k] : k \in 1..Len(Variables)}}

Zeros == [b \in Bits |-> 0]

\* register contents the hardware may hold when the device is built
Patterns == {[b \in Bits |-> b % 2], [b \in Bits |-> 1 - (b % 2)]}

Idle == [op |-> None, cmd |-> None, phase |-> "idle"]

NoRead == [node |-> 0, bits |-> <<>>]

\* the state every run starts in, the arguments apart
Fresh ==
    /\ pc = "new"
    /\ tree = <<>>
    /\ \E p \in Patterns : mem = [o \in Offsets |-> IF o = ResetPll.offset THEN Zeros ELSE p]
    /\ cur = Idle
    /\ log = <<>>
    /\ lastRead = NoRead

\* two-slot lists, as the signature's defaults [None,None] are
Init ==
    /\ serial \in [1..NumChannels -> SerialVals]
    /\ camType \in [1..NumChannels -> CamTypeVals]
    /\ Fresh

\* lists of any length up to MaxLen: python checks no length at the call
InitAny ==
    /\ serial \in SeqsUpTo(SerialVals, MaxLen)
    /\ camType \in SeqsUpTo(CamTypeVals, MaxLen)
    /\ Fresh

\* ClinkTop.__init__: the variables and commands, then the channel loop, then
\* the clock managers; an exception leaves no object.
Construct ==
    /\ pc = "new"
    /\ LET ch == ChannelLoop(serial, camType, 0)
       IN  IF ch.err
           THEN pc' = "failed" /\ tree' = <<>>
           ELSE pc' = "built" /\ tree' = Variables \o ch.nodes \o PllLoop
    /\ UNCHANGED <<serial, camType, mem, cur, log, lastRead>>

\* attribute lookup self.<name>: the node of that name
Lookup(name) == CHOOSE k \in 1..Len(tree) : tree[k].name = name /\ tree[k].idx = NoIdx

HasAttr(name) == \E k \in 1..Len(tree) : tree[k].name = name /\ tree[k].idx = NoIdx

\* a method or command is called: nothing is in flight, and the command's
\* function starts
Call(op, cmd) ==
    /\ pc = "built"
    /\ cur.phase \in {"idle", "done"}
    /\ HasAttr(cmd)
    /\ tree[Lookup(cmd)].kind = "RemoteCommand"
    /\ cur' = [op |-> op, cmd |-> cmd, phase |-> "set"]
    /\ log' = <<>>
    /\ UNCHANGED <<serial, camType, pc, tree, mem, lastRead>>

CallResetPll == Call("ResetPll", "ResetPll")

CallResetFsm == Call("ResetFsm", "ResetFsm")

CallCntRst == Call("CntRst", "CntRst")

\* hardReset adding the clock managers again before it pulses CntRst
hardResetRebuild ==
    /\ pc = "built"
    /\ cur.phase \in {"idle", "done"}
    /\ cur' = [op |-> "hardReset", cmd |-> "CntRst", phase |-> "set"]
    /\ log' = <<>>
    /\ tree' = tree \o PllLoop
    /\ UNCHANGED <<serial, camType, pc, mem, lastRead>>

hardReset == Call("hardReset", "CntRst")

\* softReset pulsing ResetFsm instead of CntRst
softResetFsm == Call("softReset", "ResetFsm")

softReset == Call("softReset", "CntRst")

countReset == Call("countReset", "CntRst")

\* bit k (0 = least significant) of the non-negative integer v
BitOf(v, k) == (v \div (2 ^ k)) % 2

\* cmd.set(v): v stored in the bits [bitOffset, bitOffset + bitSize) of the
\* command's register word, the other bits of the word kept
SetField(word, n, v) ==
    [b \in Bits |->
        IF b >= n.bitOffset /\ b < n.bitOffset + n.bitSize
        THEN BitOf(v, b - n.bitOffset)
        ELSE word[b]]

Write(n, v) ==
    /\ mem' = [mem EXCEPT ![n.offset] = SetField(mem[n.offset], n, v)]
    /\ log' = Append(log, [offset |-> n.offset, bitOffset |-> n.bitOffset, bitSize |-> n.bitSize, value |-> v])

\* BaseCommand.toggle, first half: cmd.set(1)
ToggleSet ==
    /\ cur.phase = "set"
    /\ tree[Lookup(cur.cmd)].function = "toggle"
    /\ Write(tree[Lookup(cur.cmd)], 1)
    /\ cur' = [cur EXCEPT !.phase = "clear"]
    /\ UNCHANGED <<serial, camType, pc, tree, lastRead>>

\* BaseCommand.toggle, second half: cmd.set(0); the call returns
ToggleClear ==
    /\ cur.phase = "clear"
    /\ Write(tree[Lookup(cur.cmd)], 0)
    /\ cur' = [cur EXCEPT !.phase = "done"]
    /\ UNCHANGED <<serial, camType, pc, tree, lastRead>>

\* the bits [bitOffset, bitOffset + bitSize) of a register word, lowest first
GetField(word, n) == [k \in 1..n.bitSize |-> word[n.bitOffset + k - 1]]

\* a variable is read (on demand or by the poller)
Read ==
    /\ pc = "built"
    /\ \E k \in 1..Len(tree) :
        /\ tree[k].kind = "RemoteVariable"
        /\ lastRead' = [node |-> k, bits |-> GetField(mem[tree[k].offset], tree[k])]
    /\ UNCHANGED <<serial, camType, pc, tree, mem, cur, log>>

Next ==
    \/ Construct
    \/ CallResetPll
    \/ CallResetFsm
    \/ CallCntRst
    \/ hardReset
    \/ softReset
    \/ countReset
    \/ ToggleSet
    \/ ToggleClear
    \/ Read

Spec == Init /\ [][Next]_vars

\* construction alone, over argument lists of every length
NextBuild == Construct

SpecBuild == InitAny /\ [][NextBuild]_vars

\* ------------------------------------------------------------- properties
Built == pc = "built"

NodeIdx == 1..Len(tree)

\* the variables and commands of the tree: the nodes that name bits of a word
FieldIdx == {k \in NodeIdx : tree[k].kind \in {"RemoteVariable", "RemoteCommand"}}

\* the channel sub-devices of slot i
ChanIdx(i) == {k \in NodeIdx : tree[k].kind = "ClinkChannel" /\ tree[k].idx = i}

AllChanIdx == {k \in NodeIdx : tree[k].kind = "ClinkChannel"}

PllIdx == {k \in NodeIdx : tree[k].kind = "ClockManager"}

\* C1: with two-slot serial and camType lists, slot i in {0,1} has exactly one
\* channel sub-device Ch[i], at 0x100 for slot 0 and 0x200 for slot 1, built
\* with (serial[i], camType[i]), when serial[i] is not None, and none when it
\* is None; no other channel sub-device exists.
C1_ChannelPerPresentSlot ==
    (Built /\ Len(serial) = 2 /\ Len(camType) = 2) =>
        /\ \A i \in {0, 1} :
            IF serial[i + 1] /= None
            THEN /\ Cardinality(ChanIdx(i)) = 1
                 /\ \A k \in ChanIdx(i) :
                        /\ tree[k].name = "Ch"
                        /\ tree[k].offset = (IF i = 0 THEN 256 ELSE 512)
                        /\ tree[k].serial = serial[i + 1]
                        /\ tree[k].camType = camType[i + 1]
            ELSE ChanIdx(i) = {}
        /\ \A k \in AllChanIdx : tree[k].idx \in {0, 1}

\* slot 0 present with a camera type, slot 1 absent: Ch[0] alone is built
C1_Witness ==
    /\ Built
    /\ serial = <<"serA", None>>
    /\ camType = <<"Opal1000", None>>
    /\ Cardinality(AllChanIdx) = 1
    /\ \E k \in AllChanIdx : tree[k].idx = 0 /\ tree[k].serial = "serA" /\ tree[k].camType = "Opal1000"

Aliases == {"hardReset", "softReset", "countReset"}

\* one write of value v to the single bit `bit` of the word at 0x04
BitWrite(bit, v) == [offset |-> 4, bitOffset |-> bit, bitSize |-> 1, value |-> v]

\* the state of a call that pulses the bit `bit` of 0x04: nothing written
\* yet, then the 1 written and the bit set, then the 0 written and the bit
\* clear again
PulseOn(bit) ==
    /\ cur.phase = "set" => log = <<>> /\ mem[4][bit] = 0
    /\ cur.phase = "clear" => log = <<BitWrite(bit, 1)>> /\ mem[4][bit] = 1
    /\ cur.phase = "done" => log = <<BitWrite(bit, 1), BitWrite(bit, 0)>> /\ mem[4][bit] = 0

C2_AliasPulse == cur.op \in Aliases => cur.cmd = "CntRst" /\ PulseOn(2)

\* a step of a reset method changes no bit but bit 2 of 0x04, and no node
C2_AliasFrame ==
    (cur'.op \in Aliases /\ cur' /= cur) =>
        /\ \A o \in DOMAIN mem : \A b \in Bits :
              (o /= 4 \/ b /= 2) => mem'[o][b] = mem[o][b]
        /\ DOMAIN mem' = DOMAIN mem
        /\ tree' = tree

\* C2: hardReset, softReset and countReset each run the CntRst command and
\* make the same single pulse, a write of 1 then a write of 0 to bit 2 of
\* 0x04 and nothing else; their steps leave bits 0 and 1 of 0x04 and every
\* other register word as they were.
C2_ResetAliases == []C2_AliasPulse /\ [][C2_AliasFrame]_vars

\* softReset has returned after its two writes
C2_Witness ==
    /\ cur.op = "softReset"
    /\ cur.phase = "done"
    /\ Len(log) = 2

\* the bit ranges [bitOffset, bitOffset + bitSize) of two nodes are disjoint
Disjoint(a, b) ==
    \/ a.bitOffset + a.bitSize <= b.bitOffset
    \/ b.bitOffset + b.bitSize <= a.bitOffset

\* C3: no two fields of the built tree (variables, commands, array instances
\* at their own addresses) that share a byte offset overlap in their bits.
C3_NoOverlap ==
    Built => \A j \in FieldIdx : \A k \in FieldIdx :
                (j /= k /\ tree[j].offset = tree[k].offset) => Disjoint(tree[j], tree[k])

\* a tree built from over-long lists, with six fields packed in the word at 0x10
C3_Witness ==
    /\ Built
    /\ Len(serial) = 3
    /\ Cardinality({k \in FieldIdx : tree[k].offset = 16}) = 6

\* C4: whatever the arguments, the built tree has exactly three clock
\* managers, Pll[0], Pll[1] and Pll[2], at 0x1000, 0x2000 and 0x3000, each of
\* type MMCME2.
C4_ThreePlls ==
    Built =>
        /\ Cardinality(PllIdx) = 3
        /\ \A i \in {0, 1, 2} :
            \E k \in PllIdx :
                /\ tree[k].name = "Pll"
                /\ tree[k].idx = i
                /\ tree[k].offset = (CASE i = 0 -> 4096 [] i = 1 -> 8192 [] i = 2 -> 12288)
                /\ tree[k].type = "MMCME2"

\* both channels present, and the three clock managers beside them
C4_Witness ==
    /\ Built
    /\ Cardinality(AllChanIdx) = 2
    /\ Cardinality(PllIdx) = 3

ArrayBase(name) ==
    CASE name = "ClkInFreq" -> 28
      [] name = "ClinkClkFreq" -> 40
      [] name = "ClinkClk7xFreq" -> 52

ArrayIdx(name) == {k \in FieldIdx : tree[k].name = name}

\* C5: ClkInFreq, ClinkClkFreq and ClinkClk7xFreq each have exactly three
\* elements, indexed 0, 1, 2, read-only, 32 bits wide at bit 0, element k at
\* byte offset base + 4*k with base 0x1C, 0x28 and 0x34.
C5_FreqArrays ==
    Built => \A name \in {"ClkInFreq", "ClinkClkFreq", "ClinkClk7xFreq"} :
        /\ Cardinality(ArrayIdx(name)) = 3
        /\ \A i \in {0, 1, 2} :
            \E k \in ArrayIdx(name) :
                /\ tree[k].idx = i
                /\ tree[k].offset = ArrayBase(name) + 4 * i
                /\ tree[k].bitOffset = 0
                /\ tree[k].bitSize = 32
                /\ tree[k].mode = "RO"
                /\ tree[k].kind = "RemoteVariable"

\* the last element of the last array has been read: 32 bits from 0x3C
C5_Witness ==
    /\ Built
    /\ lastRead.node \in ArrayIdx("ClinkClk7xFreq")
    /\ tree[lastRead.node].idx = 2
    /\ tree[lastRead.node].offset = 60
    /\ Len(lastRead.bits) = 32

\* C6: every field of the built tree ends within its 32-bit register word.
C6_WithinWord ==
    Built => \A k \in FieldIdx :
        /\ tree[k].bitOffset >= 0
        /\ tree[k].bitSize >= 1
        /\ tree[k].bitOffset + tree[k].bitSize <= 32

\* LinkLockedCntC, which ends exactly at bit 32, has been read
C6_Witness ==
    /\ Built
    /\ lastRead.node \in FieldIdx
    /\ tree[lastRead.node].name = "LinkLockedCntC"
    /\ tree[lastRead.node].bitOffset + tree[lastRead.node].bitSize = 32
    /\ Len(lastRead.bits) = 8

WrongLength == Len(serial) /= 2 \/ Len(camType) /= 2

\* C7 as stated: every serial or camType list whose length is not two makes
\* construction fail, and no tree is produced.
C7_WrongLengthFails ==
    (pc /= "new" /\ WrongLength) => (pc = "failed" /\ tree = <<>>)

\* the arguments on which a subscript of the channel loop is out of range
Raises ==
    \/ Len(serial) < 2
    \/ \E i \in {0, 1} : i < Len(serial) /\ serial[i + 1] /= None /\ Len(camType) <= i

\* C7 as amended: construction fails, producing no tree, exactly when serial
\* has fewer than two elements or a slot i in {0,1} is present in serial while
\* camType has no element i; on every other argument, over-long lists and
\* short camType lists with absent slots included, it completes.
C7_FailsIffSubscriptRaises ==
    pc /= "new" =>
        /\ pc = "failed" <=> Raises
        /\ pc = "failed" => tree = <<>>
        /\ pc = "built" => Len(tree) >= Len(Variables) + 3

\* slot 1 present in a two-slot serial list, camType one element short
C7_Witness ==
    /\ pc = "failed"
    /\ Len(serial) = 2
    /\ serial[2] /= None
    /\ Len(camType) = 1

CmdBit(c) == CASE c = "ResetPll" -> 0 [] c = "ResetFsm" -> 1 [] c = "CntRst" -> 2

CmdBits == {0, 1, 2}

\* C9: a call of ResetPll, ResetFsm or CntRst writes 1 and then 0 to its own
\* bit of 0x04 (bit 0, 1, 2), so the bit is set between the two writes; the
\* other two command bits stay 0 throughout, and whenever no call is between
\* its two writes all three command bits are 0.
C9_Toggle ==
    Built =>
        /\ cur.phase /= "idle" =>
              /\ cur.cmd \in {"ResetPll", "ResetFsm", "CntRst"}
              /\ PulseOn(CmdBit(cur.cmd))
              /\ \A b \in CmdBits \ {CmdBit(cur.cmd)} : mem[4][b] = 0
        /\ cur.phase /= "clear" => \A b \in CmdBits : mem[4][b] = 0

\* ResetFsm between its two writes: bit 1 set, bits 0 and 2 clear
C9_Witness ==
    /\ cur.op = "ResetFsm"
    /\ cur.phase = "clear"
    /\ mem[4][1] = 1
    /\ mem[4][0] = 0
    /\ mem[4][2] = 0

\* the tree ClinkTop.__init__ makes of the arguments, slot by slot
ExpectedChannels ==
    SelectSeq(<<0, 1>>, LAMBDA i : serial[i + 1] /= None)

\* C10: once built, the tree never changes: no call of a reset method or of
\* a command, no write and no read adds, removes or alters a node.
C10_TreeImmutable == [][Built => tree' = tree]_vars

\* a command has run to its end and a variable was read, on the built tree
C10_Witness ==
    /\ Built
    /\ cur.op = "hardReset"
    /\ cur.phase = "done"
    /\ lastRead.node \in FieldIdx
    /\ Len(tree) = Len(Variables) + Len(ExpectedChannels) + 3

====
